---- MODULE Spec2Model ----
(***************************************************************************)
(* bank-csv: detection of bank CSV exports (N26, PayPal, DKB), filtering   *)
(* by currency, merging into a sorted set and writing one CSV per month.   *)
(*                                                                         *)
(* Strings are sequences of one-character strings, so that substring       *)
(* search, prefix/suffix stripping and byte-wise comparison are computed   *)
(* as the Rust code computes them.  An Option<T> is the empty tuple        *)
(* (None) or a one-element tuple (Some(v)).                                *)
(***************************************************************************)
EXTENDS Integers, Sequences, FiniteSets, TLC

VARIABLES
    call,                   \* a call of a library function: argument, locals, result
    pc,                     \* merge_command: position in the function
    upper_currency,         \* merge_command: currency.to_uppercase()
    files_left,             \* merge_command: paths of csv_file_paths not yet visited
    file_result,            \* merge_command: what became of the last path visited
    df_csv,                 \* merge_command: the table of the current file
    rows_left,              \* merge_command: rows of df_filtered not yet visited
    row,                    \* merge_command: the row buffer of get_row_amortized
    push_result,            \* merge_command: what the last push returned
    currency_transactions,  \* merge_command: the merged SortedSet<CsvOutputRow>
    transaction_map,        \* merge_command: (year, month) -> the rows of that month
    sorted_keys,            \* merge_command: keys of transaction_map not yet written
    written,                \* merge_command: the output files written so far
    error                   \* merge_command: the error or panic that ended the run

mergeVars == <<pc, upper_currency, files_left, file_result, df_csv, rows_left, row,
               push_result, currency_transactions, transaction_map, sorted_keys,
               written, error>>

vars == <<call, mergeVars>>

----------------------------------------------------------------------------
(* Option<T> *)

None == << >>

Some(v) == <<v>>

unwrap_or(o, default) == IF o = None THEN default ELSE o[1]

----------------------------------------------------------------------------
(* str: the characters that occur, in ascending byte order (UTF-8) *)

Alphabet ==
    << "\t", " ", "\"", "*", ",", "-", ".", "/", "0", "1", "2", "3", "4", "5",
       "6", "7", "8", "9", ":", ";", "=", "A", "B", "D", "E", "F", "G", "L",
       "N", "O", "P", "R", "S", "T", "U", "V", "X", "a", "b", "c", "d", "e",
       "f", "g", "h", "i", "k", "l", "m", "n", "o", "p", "r", "s", "t", "u",
       "w", "x", "y", "z", "ä" >>

Code(c) == CHOOSE i \in 1..Len(Alphabet) : Alphabet[i] = c

\* str::cmp: byte-wise lexicographic; a proper prefix is Less
RECURSIVE str_cmp(_, _)
str_cmp(a, b) ==
    IF a = << >> /\ b = << >> THEN "Equal"
    ELSE IF a = << >> THEN "Less"
    ELSE IF b = << >> THEN "Greater"
    ELSE IF Code(Head(a)) < Code(Head(b)) THEN "Less"
    ELSE IF Code(Head(a)) > Code(Head(b)) THEN "Greater"
    ELSE str_cmp(Tail(a), Tail(b))

\* the 0-based positions at which pat occurs in s
Occurrences(s, pat) ==
    { i \in 0..(Len(s) - Len(pat)) : SubSeq(s, i + 1, i + Len(pat)) = pat }

\* str::contains
contains(s, pat) == Occurrences(s, pat) # {}

\* str::find: the position of the first occurrence
find(s, pat) ==
    IF Occurrences(s, pat) = {} THEN None
    ELSE Some(CHOOSE i \in Occurrences(s, pat) :
                 \A j \in Occurrences(s, pat) : i <= j)

\* str::strip_prefix with a char pattern
strip_prefix(s, c) ==
    IF Len(s) > 0 /\ s[1] = c THEN Some(Tail(s)) ELSE None

\* str::strip_suffix with a char pattern
strip_suffix(s, c) ==
    IF Len(s) > 0 /\ s[Len(s)] = c THEN Some(SubSeq(s, 1, Len(s) - 1)) ELSE None

\* str::replace with one-character patterns
replace(s, from, to) == [i \in 1..Len(s) |-> IF s[i] = from THEN to ELSE s[i]]

IsWhitespace(c) == c \in {" ", "\t"}

\* str::trim
RECURSIVE trim_start(_)
trim_start(s) ==
    IF Len(s) > 0 /\ IsWhitespace(Head(s)) THEN trim_start(Tail(s)) ELSE s

RECURSIVE trim_end(_)
trim_end(s) ==
    IF Len(s) > 0 /\ IsWhitespace(s[Len(s)])
    THEN trim_end(SubSeq(s, 1, Len(s) - 1)) ELSE s

trim(s) == trim_end(trim_start(s))

\* all strings over the characters cs of length at most n
RECURSIVE StringsUpTo(_, _)
StringsUpTo(cs, n) ==
    IF n = 0 THEN { << >> }
    ELSE LET shorter == StringsUpTo(cs, n - 1)
         IN  shorter \cup { Append(s, c) : s \in shorter, c \in cs }

----------------------------------------------------------------------------
(* lib.rs constants *)

CHAR_COMMA == ","

CHAR_DOT == "."

CHAR_DOUBLE_QUOTE == "\""

----------------------------------------------------------------------------
(* strip_quotes *)

\* both unwrap_or fall back to the original s
strip_quotes(s) ==
    unwrap_or(
        strip_suffix(unwrap_or(strip_prefix(s, CHAR_DOUBLE_QUOTE), s),
                     CHAR_DOUBLE_QUOTE),
        s)

----------------------------------------------------------------------------
(* detect_separator *)

GIROKONTO == <<"G", "i", "r", "o", "k", "o", "n", "t", "o">>

SourceNames == {"N26", "PayPal", "DKB"}

Ok(v) == [ok |-> TRUE, value |-> v, err |-> "none"]

Err(e) == [ok |-> FALSE, value |-> << >>, err |-> e]

\* detect_separator that looks for a comma before a semicolon
detect_separator_comma_first(f) ==
    IF ~f.openable THEN Err("open")
    ELSE IF f.lines = << >> THEN Err("InvalidData: Error reading the first line")
    ELSE IF ~f.first_line_readable THEN Err("read")
    ELSE LET first_line == f.lines[1]
             src == IF contains(first_line, GIROKONTO) THEN Some("DKB") ELSE None
         IN  IF contains(first_line, <<",">>) THEN Ok(<<",", src>>)
             ELSE IF contains(first_line, <<";">>) THEN Ok(<<";", src>>)
             ELSE IF contains(first_line, <<"\t">>) THEN Ok(<<"\t", src>>)
             ELSE Err("NotFound: No separator found in the first line")

\* f.openable: File::open succeeds; f.lines: the lines of the file;
\* f.first_line_readable: reading the first line gives no io::Error
detect_separator(f) ==
    IF ~f.openable THEN Err("open")
    ELSE IF f.lines = << >> THEN Err("InvalidData: Error reading the first line")
    ELSE IF ~f.first_line_readable THEN Err("read")
    ELSE LET first_line == f.lines[1]
             src == IF contains(first_line, GIROKONTO) THEN Some("DKB") ELSE None
         IN  IF contains(first_line, <<";">>) THEN Ok(<<";", src>>)
             ELSE IF contains(first_line, <<",">>) THEN Ok(<<",", src>>)
             ELSE IF contains(first_line, <<"\t">>) THEN Ok(<<"\t", src>>)
             ELSE Err("NotFound: No separator found in the first line")

----------------------------------------------------------------------------
(* dkb_edit_file *)

VERWENDUNGSZWECK ==
    <<"V", "e", "r", "w", "e", "n", "d", "u", "n", "g", "s", "z", "w", "e", "c", "k">>

\* a loop body that writes only the lines that contain the marker
dkb_edit_line_marker_only(st, line_content) ==
    LET write_lines == contains(line_content, VERWENDUNGSZWECK)
    IN  [write_lines |-> write_lines,
         out |-> IF write_lines THEN Append(st.out, line_content) ELSE st.out]

\* one iteration of the loop over decoded.lines(): st = [write_lines, out]
dkb_edit_line(st, line_content) ==
    LET write_lines == st.write_lines \/ contains(line_content, VERWENDUNGSZWECK)
    IN  [write_lines |-> write_lines,
         out |-> IF write_lines THEN Append(st.out, line_content) ELSE st.out]

dkb_edit_start == [write_lines |-> FALSE, out |-> << >>]

RECURSIVE dkb_edit_loop(_, _)
dkb_edit_loop(st, lines) ==
    IF lines = << >> THEN st
    ELSE dkb_edit_loop(dkb_edit_line(st, Head(lines)), Tail(lines))

\* the lines written to temp_file, or the io::Error of open/read/write/flush
dkb_edit_file(f, io_ok) ==
    IF ~io_ok THEN Err("io") ELSE Ok(dkb_edit_loop(dkb_edit_start, f.lines).out)

----------------------------------------------------------------------------
(* polars AnyValue, as far as merge_command reads it.  A Float64 is kept   *)
(* as its decimal text, which is all the code uses of it.                  *)

Str(v) == [t |-> "String", v |-> v]

Null == [t |-> "Null", v |-> << >>]

F64(text) == [t |-> "Float64", v |-> text]

Date(days) == [t |-> "Date", v |-> days]

\* Display for AnyValue: a String is written in double quotes, Null as null
to_string(av) ==
    IF av.t = "String" THEN <<"\"">> \o av.v \o <<"\"">>
    ELSE IF av.t = "Null" THEN <<"n", "u", "l", "l">>
    ELSE av.v

\* col(c).eq(lit(text)) and .neq(lit(text)) on one value: a null compares
\* to null, which filter() drops
col_eq(av, text) == av.t = "String" /\ av.v = text

col_neq(av, text) == av.t = "String" /\ av.v # text

----------------------------------------------------------------------------
(* filter_data_frame *)

NUM_FIRST_COLUMNS == 5

NUM_SELECT_COLUMNS == 6

PAYPAL_COLUMNS == <<"Date", "Time", "TimeZone", "Name", "Type">>

PAYPAL_COLUMNS_OLD == <<"Date", "Time", "Time Zone", "Description", "Currency">>

N26_COLUMNS ==
    <<"Date", "Payee", "Account number", "Transaction type", "Payment reference">>

N26_COLUMNS_2024_09 ==
    <<"Booking Date", "Value Date", "Partner Name", "Partner Iban", "Type">>

DKB_COLUMNS ==
    <<"Buchungstag", "Wertstellung", "Buchungstext", "Auftraggeber / Begünstigter",
      "Verwendungszweck">>

DKB_COLUMNS_2024_09 ==
    <<"Buchungsdatum", "Wertstellung", "Status", "Zahlungspflichtige*r",
      "Zahlungsempfänger*in">>

EUR == <<"E", "U", "R">>

GENERAL_CURRENCY_CONVERSION ==
    <<"G", "e", "n", "e", "r", "a", "l", " ", "C", "u", "r", "r", "e", "n", "c", "y",
      " ", "C", "o", "n", "v", "e", "r", "s", "i", "o", "n">>

DEBIT == <<"D", "e", "b", "i", "t">>

Range(f) == { f[i] : i \in DOMAIN f }

\* Iterator::take
take(seq, n) == SubSeq(seq, 1, IF Len(seq) < n THEN Len(seq) ELSE n)

\* lazy_frame.select([cols(columns_to_select)]).collect().unwrap(), kept being
\* the rows that pass the filters: a column the filters or the selection name
\* that the table lacks makes collect() fail, and unwrap() panic
collect(src, columns_to_select, filter_columns, kept, df) ==
    IF ~((Range(columns_to_select) \cup filter_columns) \subseteq Range(df.columns))
    THEN [outcome |-> "panic: collect", source |-> src,
          columns_to_select |-> columns_to_select, rows |-> << >>]
    ELSE [outcome |-> "ok", source |-> src,
          columns_to_select |-> columns_to_select,
          rows |-> [i \in 1..Len(kept) |->
                      [j \in 1..NUM_SELECT_COLUMNS |-> kept[i][columns_to_select[j]]]]]

\* a comparison that ignores the order of the names
matches_in_any_order(first_columns, fingerprint) ==
    Range(first_columns) = Range(fingerprint)

\* first_columns == FINGERPRINT: Vec<&str> against [&str; 5], equal when the
\* lengths and every element agree
matches(first_columns, fingerprint) == first_columns = fingerprint

\* target_currency is the parameter upper_currency;
\* df = [columns |-> the column names, rows |-> the rows, each a function
\* from the column names to AnyValue]
filter_data_frame(df, target_currency) ==
    LET first_columns == take(df.columns, NUM_FIRST_COLUMNS)
    IN  IF matches(first_columns, PAYPAL_COLUMNS) THEN
            collect("PayPal",
                    <<"Date", "Currency", "Gross", "Type", "Name", "Transaction ID">>,
                    {"Currency", "Balance Impact", "Type"},
                    SelectSeq(df.rows,
                              LAMBDA r : /\ col_eq(r["Currency"], target_currency)
                                         /\ col_eq(r["Balance Impact"], DEBIT)
                                         /\ col_neq(r["Type"], GENERAL_CURRENCY_CONVERSION)),
                    df)
        ELSE IF matches(first_columns, PAYPAL_COLUMNS_OLD) THEN
            collect("PayPal",
                    <<"Date", "Currency", "Gross", "Description", "Name", "Transaction ID">>,
                    {"Currency", "Description"},
                    SelectSeq(df.rows,
                              LAMBDA r : /\ col_eq(r["Currency"], target_currency)
                                         /\ col_neq(r["Description"],
                                                    GENERAL_CURRENCY_CONVERSION)),
                    df)
        ELSE IF matches(first_columns, N26_COLUMNS) \/ matches(first_columns, N26_COLUMNS_2024_09) THEN
            LET amount_column ==
                    IF target_currency = EUR THEN "Amount (EUR)"
                    ELSE IF matches(first_columns, N26_COLUMNS) THEN "Amount (Foreign Currency)"
                    ELSE "Original Amount"
                currency_column ==
                    IF matches(first_columns, N26_COLUMNS) THEN "Type Foreign Currency"
                    ELSE "Original Currency"
                columns_to_select ==
                    IF matches(first_columns, N26_COLUMNS)
                    THEN <<"Date", currency_column, amount_column, "Transaction type",
                           "Payee", "Payment reference">>
                    ELSE <<"Booking Date", currency_column, amount_column, "Type",
                           "Partner Name", "Payment Reference">>
            IN  IF target_currency = EUR
                THEN collect("N26", columns_to_select, {currency_column},
                             SelectSeq(df.rows,
                                       LAMBDA r : \/ col_eq(r[currency_column], target_currency)
                                                  \/ col_eq(r[currency_column], << >>)
                                                  \/ r[currency_column].t = "Null"),
                             df)
                ELSE collect("N26", columns_to_select, {currency_column},
                             SelectSeq(df.rows,
                                       LAMBDA r : col_eq(r[currency_column], target_currency)),
                             df)
        ELSE IF matches(first_columns, DKB_COLUMNS) THEN
            collect("DKB",
                    <<"Buchungstag", "Mandatsreferenz", "Betrag (EUR)", "Buchungstext",
                      "Auftraggeber / Begünstigter", "Verwendungszweck">>,
                    {}, df.rows, df)
        ELSE IF matches(first_columns, DKB_COLUMNS_2024_09) THEN
            collect("DKB",
                    <<"Buchungsdatum", "Mandatsreferenz", "Betrag (€)", "Umsatztyp",
                      "Zahlungsempfänger*in", "Verwendungszweck">>,
                    {}, df.rows, df)
        ELSE [outcome |-> "panic: Unknown CSV format", source |-> "none",
              columns_to_select |-> << >>, rows |-> << >>]

----------------------------------------------------------------------------
(* dkb_extract_amount *)

EURO_RATE == <<" ", "1", " ", "E", "u", "r", "o", "=">>

ORIGINAL == <<"O", "r", "i", "g", "i", "n", "a", "l", " ">>

\* "ä" is two bytes in UTF-8; every index the code computes falls on a
\* character boundary, so counting it as one element changes no result
FREMDWAEHRUNG ==
    <<"U", "r", "s", "p", "r", "u", "n", "g", "s", "b", "e", "t", "r", "a", "g", " ",
      "i", "n", " ", "F", "r", "e", "m", "d", "w", "ä", "h", "r", "u", "n", "g", " ">>

\* a panic of the slice &memo[amount_start..end] with amount_start > end
SlicePanic == <<"panic", "slice index starts after end">>

\* the body of dkb_extract_amount once the keyword is located at start
extract_after(currency, memo, start, word_length) ==
    LET end == find(memo, currency)
    IN  IF end = None THEN None
        ELSE IF end[1] <= start THEN None
        ELSE LET amount_start == start + word_length
             IN  IF amount_start > end[1] THEN SlicePanic
                 ELSE Some(trim(SubSeq(memo, amount_start + 1, end[1])))

\* dkb_extract_amount without the check for the exchange rate
dkb_extract_amount_no_rate_check(currency, memo) ==
    IF contains(memo, ORIGINAL)
    THEN extract_after(currency, memo, find(memo, ORIGINAL)[1], Len(ORIGINAL))
    ELSE IF contains(memo, FREMDWAEHRUNG)
         THEN extract_after(currency, memo, find(memo, FREMDWAEHRUNG)[1],
                            Len(FREMDWAEHRUNG))
    ELSE None

dkb_extract_amount(currency, memo) ==
    IF ~contains(memo, EURO_RATE) THEN None
    ELSE IF contains(memo, ORIGINAL)
         THEN extract_after(currency, memo, find(memo, ORIGINAL)[1], Len(ORIGINAL))
    ELSE IF contains(memo, FREMDWAEHRUNG)
         THEN extract_after(currency, memo, find(memo, FREMDWAEHRUNG)[1],
                            Len(FREMDWAEHRUNG))
    ELSE None

----------------------------------------------------------------------------
(* chrono::NaiveDate, as [year, month, day] *)

ymd(y, m, d) == [year |-> y, month |-> m, day |-> d]

\* Ord for NaiveDate: chronological
date_cmp(a, b) ==
    IF a.year # b.year THEN (IF a.year < b.year THEN "Less" ELSE "Greater")
    ELSE IF a.month # b.month THEN (IF a.month < b.month THEN "Less" ELSE "Greater")
    ELSE IF a.day # b.day THEN (IF a.day < b.day THEN "Less" ELSE "Greater")
    ELSE "Equal"

IsLeap(y) == (y % 4 = 0 /\ y % 100 # 0) \/ y % 400 = 0

DaysInMonth(y, m) ==
    IF m = 2 THEN (IF IsLeap(y) THEN 29 ELSE 28)
    ELSE IF m \in {4, 6, 9, 11} THEN 30 ELSE 31

\* NaiveDate::from_num_days_from_ce_opt(days + EPOCH_DAYS_FROM_CE): the
\* calendar date `days` days after 1970-01-01 (days >= 0 here)
from_epoch_days(days) ==
    LET z == days + 719468
        era == z \div 146097
        doe == z - era * 146097
        yoe == (doe - doe \div 1460 + doe \div 36524 - doe \div 146096) \div 365
        doy == doe - (365 * yoe + yoe \div 4 - yoe \div 100)
        mp == (5 * doy + 2) \div 153
        d == doy - (153 * mp + 2) \div 5 + 1
        m == IF mp < 10 THEN mp + 3 ELSE mp - 9
        y == yoe + era * 400 + (IF m <= 2 THEN 1 ELSE 0)
    IN  ymd(y, m, d)

Digits == {"0", "1", "2", "3", "4", "5", "6", "7", "8", "9"}

DigitValue(c) == Code(c) - Code("0")

\* chrono's scan::number(s, 1, max): between 1 and max leading digits;
\* <<value, rest>> or None
RECURSIVE scan_digits(_, _, _)
scan_digits(s, max, acc) ==
    IF max > 0 /\ s # << >> /\ Head(s) \in Digits
    THEN scan_digits(Tail(s), max - 1, acc * 10 + DigitValue(Head(s)))
    ELSE <<acc, s>>

scan_number(s, max) ==
    IF s = << >> \/ Head(s) \notin Digits THEN None ELSE Some(scan_digits(s, max, 0))

\* NaiveDate::parse_from_str(s, "%d.%m.%y") when two_digit_year, else
\* "%d.%m.%Y"; Some(date) or None for a ParseError
parse_from_str(s, two_digit_year) ==
    LET dd == scan_number(s, 2)
    IN  IF dd = None \/ dd[1][2] = << >> \/ Head(dd[1][2]) # "." THEN None
        ELSE LET mm == scan_number(Tail(dd[1][2]), 2)
             IN  IF mm = None \/ mm[1][2] = << >> \/ Head(mm[1][2]) # "." THEN None
                 ELSE LET yy == scan_number(Tail(mm[1][2]), IF two_digit_year THEN 2 ELSE 4)
                      IN  IF yy = None \/ yy[1][2] # << >> THEN None
                          ELSE LET y == IF ~two_digit_year THEN yy[1][1]
                                        ELSE IF yy[1][1] < 70 THEN 2000 + yy[1][1]
                                        ELSE 1900 + yy[1][1]
                                   m == mm[1][1]
                                   d == dd[1][1]
                               IN  IF m \in 1..12 /\ d \in 1..DaysInMonth(y, m)
                                   THEN Some(ymd(y, m, d)) ELSE None

----------------------------------------------------------------------------
(* CsvOutputRow *)

NULL_TEXT == <<"n", "u", "l", "l">>

\* CsvOutputRow::new without the assumption of euros
CsvOutputRow_new_as_given(date, src, currency, amount, transaction_type, payee, memo) ==
    [date |-> date,
     source |-> src,
     currency |-> strip_quotes(currency),
     amount |-> replace(strip_quotes(amount), CHAR_DOT, CHAR_COMMA),
     transaction_type |-> strip_quotes(transaction_type),
     payee |-> strip_quotes(payee),
     memo |-> strip_quotes(memo)]

\* CsvOutputRow::new
CsvOutputRow_new(date, src, currency, amount, transaction_type, payee, memo) ==
    LET stripped == strip_quotes(currency)
        final_currency == IF stripped = << >> \/ stripped = NULL_TEXT THEN EUR ELSE stripped
    IN  [date |-> date,
         source |-> src,
         currency |-> final_currency,
         amount |-> replace(strip_quotes(amount), CHAR_DOT, CHAR_COMMA),
         transaction_type |-> strip_quotes(transaction_type),
         payee |-> strip_quotes(payee),
         memo |-> strip_quotes(memo)]

\* cmp that also compares memo
cmp_with_memo(self, other) ==
    IF date_cmp(self.date, other.date) # "Equal" THEN date_cmp(self.date, other.date)
    ELSE IF str_cmp(self.currency, other.currency) # "Equal"
         THEN str_cmp(self.currency, other.currency)
    ELSE IF str_cmp(self.amount, other.amount) # "Equal"
         THEN str_cmp(self.amount, other.amount)
    ELSE IF str_cmp(self.transaction_type, other.transaction_type) # "Equal"
         THEN str_cmp(self.transaction_type, other.transaction_type)
    ELSE IF str_cmp(self.payee, other.payee) # "Equal"
         THEN str_cmp(self.payee, other.payee)
    ELSE str_cmp(self.memo, other.memo)

\* impl Ord for CsvOutputRow
cmp(self, other) ==
    IF date_cmp(self.date, other.date) # "Equal" THEN date_cmp(self.date, other.date)
    ELSE IF str_cmp(self.currency, other.currency) # "Equal"
         THEN str_cmp(self.currency, other.currency)
    ELSE IF str_cmp(self.amount, other.amount) # "Equal"
         THEN str_cmp(self.amount, other.amount)
    ELSE IF str_cmp(self.transaction_type, other.transaction_type) # "Equal"
         THEN str_cmp(self.transaction_type, other.transaction_type)
    ELSE str_cmp(self.payee, other.payee)

----------------------------------------------------------------------------
(* sorted_vec::SortedSet<CsvOutputRow>, a sequence kept sorted by cmp with *)
(* no two elements Equal under cmp                                         *)

\* the number of elements of set that are Less than element: the index at
\* which the binary search lands
SearchIndex(set, element) ==
    Cardinality({ k \in 1..Len(set) : cmp(set[k], element) = "Less" })

\* the sequence seq with x put in at 0-based index i
InsertAt(seq, i, x) == SubSeq(seq, 1, i) \o <<x>> \o SubSeq(seq, i + 1, Len(seq))

\* a push that never looks for an Equal element
push_always_inserts(set, element, replaces) ==
    [set |-> InsertAt(set, SearchIndex(set, element), element),
     index |-> SearchIndex(set, element), found |-> None]

\* SortedSet::push: an element Equal to `element` under cmp is found, and the
\* set keeps its size; otherwise `element` is inserted at its sorted place.
\* The crate is not part of this repository; whether the element found stays
\* or is replaced by the new one is left open (replaces).
push(set, element, replaces) ==
    LET i == SearchIndex(set, element)
    IN  IF i < Len(set) /\ cmp(set[i + 1], element) = "Equal"
        THEN [set |-> IF replaces THEN [set EXCEPT ![i + 1] = element] ELSE set,
              index |-> i, found |-> Some(set[i + 1])]
        ELSE [set |-> InsertAt(set, i, element), index |-> i, found |-> None]

----------------------------------------------------------------------------
(* merge_command: the loop body over the rows of df_filtered *)

MINUS == <<"-">>

PRESENTMENT == <<"P", "r", "e", "s", "e", "n", "t", "m", "e", "n", "t">>

Continue == [kind |-> "continue", transaction |-> << >>, error |-> "none"]

Fail(e) == [kind |-> "error", transaction |-> << >>, error |-> e]

Push(t) == [kind |-> "push", transaction |-> t, error |-> "none"]

\* a date read with the 4-digit-year layout whatever the length of its text
row_date_always_four_digits(value) ==
    IF value.t = "Date" THEN Some(from_epoch_days(value.v))
    ELSE parse_from_str(value.v, FALSE)

\* lines 160-175: the date of the row, Some(date) or None for a ParseError
row_date(value) ==
    IF value.t = "Date" THEN Some(from_epoch_days(value.v))
    ELSE IF Len(value.v) = 8 THEN parse_from_str(value.v, TRUE)
    ELSE parse_from_str(value.v, FALSE)

\* lines 160-185, once currency and amount are settled
make_transaction(src, r, currency, amount) ==
    IF r[1].t \notin {"Date", "String"} THEN Fail("panic: the date is not text")
    ELSE IF row_date(r[1]) = None THEN Fail("ParseError: invalid date")
    ELSE Push(CsvOutputRow_new(row_date(r[1])[1], src, currency, amount,
                               strip_quotes(to_string(r[4])), to_string(r[5]),
                               to_string(r[6])))

\* lines 153-158: the amount of a row of an N26 file
n26_amount(transaction_type, amount) ==
    IF transaction_type = PRESENTMENT THEN MINUS \o amount ELSE amount

\* a loop body that takes the amount of a DKB row from the memo whatever the
\* target currency, and always with a minus sign
process_row_dkb_always_extracts(src, upper, r) ==
    LET amount == to_string(r[3])
        memo == to_string(r[6])
    IN  IF src = "DKB" THEN
            LET extracted == dkb_extract_amount(upper, memo)
            IN  IF extracted = None THEN Continue
                ELSE IF extracted = SlicePanic THEN Fail("panic: slice")
                ELSE make_transaction(src, r, upper, MINUS \o extracted[1])
        ELSE make_transaction(src, r, to_string(r[2]), amount)

\* lines 127-185: src is the source of the table, upper the target currency,
\* r the six values of the row
process_row(src, upper, r) ==
    LET amount == to_string(r[3])
        transaction_type == strip_quotes(to_string(r[4]))
        memo == to_string(r[6])
    IN  IF src = "DKB" THEN
            IF upper = EUR THEN make_transaction(src, r, EUR, amount)
            ELSE LET extracted == dkb_extract_amount(upper, memo)
                 IN  IF extracted = None THEN Continue
                     ELSE IF extracted = SlicePanic THEN Fail("panic: slice")
                     ELSE make_transaction(src, r, upper,
                              IF contains(amount, MINUS) THEN MINUS \o extracted[1]
                              ELSE extracted[1])
        ELSE IF src = "N26"
             THEN make_transaction(src, r, to_string(r[2]),
                                   n26_amount(transaction_type, amount))
        ELSE make_transaction(src, r, to_string(r[2]), amount)

----------------------------------------------------------------------------
(* Calls of the library functions on their own.  call holds the function's *)
(* name, its argument, the loop position and locals of a function that     *)
(* loops, and the result once the call has returned.                       *)

NewCall(fn, arg) ==
    [fn |-> fn, arg |-> arg, i |-> 0, st |-> dkb_edit_start, ret |-> << >>,
     done |-> FALSE]

Return(value) == call' = [call EXCEPT !.ret = value, !.done = TRUE]

\* merge_command is not running
MergeIdle ==
    /\ pc = "idle"
    /\ upper_currency = << >>
    /\ files_left = 0
    /\ file_result = "none"
    /\ df_csv = << >>
    /\ rows_left = 0
    /\ row = << >>
    /\ push_result = << >>
    /\ currency_transactions = << >>
    /\ transaction_map = << >>
    /\ sorted_keys = << >>
    /\ written = << >>
    /\ error = "none"

(* strip_quotes and CsvOutputRow::new *)

MaxStrLen == 4

QuoteChars == {"\"", "1", ".", "a"}

StripInputs ==
    StringsUpTo(QuoteChars, MaxStrLen)
        \cup { <<"\"", "1", "2", ".", "5", "0", "\"">>, <<"1", "2", ".", "5", "0">>,
               <<"-", "\"", "1", "2", ",", "5", "0", "\"">> }

InitStrip ==
    /\ call \in { NewCall(fn, s) : fn \in {"strip_quotes", "CsvOutputRow::new"},
                                   s \in StripInputs }
    /\ MergeIdle

CallStripQuotes ==
    /\ call.fn = "strip_quotes" /\ ~call.done
    /\ Return(strip_quotes(call.arg))
    /\ UNCHANGED mergeVars

\* a row built from the argument in every text position
CallNew ==
    /\ call.fn = "CsvOutputRow::new" /\ ~call.done
    /\ Return(CsvOutputRow_new(ymd(2024, 1, 15), "N26", call.arg, call.arg, call.arg,
                               call.arg, call.arg))
    /\ UNCHANGED mergeVars

NextStrip == CallStripQuotes \/ CallNew

SpecStrip == InitStrip /\ [][NextStrip]_vars

\* what the claim describes: a leading quote is removed if there is one, then a
\* trailing quote if there is one
StripOneLayer(s) ==
    LET t == IF Len(s) > 0 /\ s[1] = "\"" THEN Tail(s) ELSE s
    IN  IF Len(t) > 0 /\ t[Len(t)] = "\"" THEN SubSeq(t, 1, Len(t) - 1) ELSE t

\* C8: strip_quotes removes a leading double quote if the string starts with
\* one and a trailing double quote if it ends with one, at most one per side,
\* and returns a string without surrounding quotes unchanged; the amount and
\* the text fields built by CsvOutputRow::new are stripped the same way (the
\* amount with its dot then replaced by a comma).  (Stated for strings of two
\* characters or more, where the leading and the trailing character differ.)
C8_StripsOneLayerEachSide ==
    (call.done /\ Len(call.arg) >= 2) =>
        /\ call.fn = "strip_quotes" => call.ret = StripOneLayer(call.arg)
        /\ call.fn = "CsvOutputRow::new" =>
              /\ call.ret.amount = replace(StripOneLayer(call.arg), ".", ",")
              /\ call.ret.payee = StripOneLayer(call.arg)
              /\ call.ret.memo = StripOneLayer(call.arg)
              /\ call.ret.transaction_type = StripOneLayer(call.arg)

----------------------------------------------------------------------------
(* impl Ord for CsvOutputRow *)

CmpDates == {ymd(2023, 12, 31), ymd(2024, 1, 15), ymd(2024, 2, 1)}

USD == <<"U", "S", "D">>

CmpAmounts == {<<"9", ",", "0">>, <<"1", "0", ",", "0">>, <<"-", "5", ",", "0">>}

PRESENTMENT_REFUND == PRESENTMENT \o <<" ", "R", "e", "f", "u", "n", "d">>

CmpPayees == {<<"B", "a", "r">>, <<"B", "a", "r", "n">>}

CmpMemos == {<<"m">>, <<"n">>}

CmpRows ==
    [date : CmpDates, source : {"N26", "DKB"}, currency : {EUR, USD},
     amount : CmpAmounts, transaction_type : {PRESENTMENT, PRESENTMENT_REFUND},
     payee : CmpPayees, memo : CmpMemos]

InitCmp ==
    /\ call \in { NewCall("cmp", <<a, b>>) : a \in CmpRows, b \in CmpRows }
    /\ MergeIdle

CallCmp ==
    /\ call.fn = "cmp" /\ ~call.done
    /\ Return(cmp(call.arg[1], call.arg[2]))
    /\ UNCHANGED mergeVars

NextCmp == CallCmp

SpecCmp == InitCmp /\ [][NextCmp]_vars

\* d is an earlier day than e
DateBefore(d, e) ==
    \/ d.year < e.year
    \/ d.year = e.year /\ d.month < e.month
    \/ d.year = e.year /\ d.month = e.month /\ d.day < e.day

\* the five compared fields, in the order of comparison
KeyFields == <<"date", "currency", "amount", "transaction_type", "payee">>

\* the order of one field: dates chronologically, text byte-wise
FieldCmp(name, a, b) ==
    IF name = "date" THEN date_cmp(a.date, b.date) ELSE str_cmp(a[name], b[name])

\* the positions of KeyFields at which a and b differ
Differing(a, b) == { i \in 1..Len(KeyFields) : a[KeyFields[i]] # b[KeyFields[i]] }

\* C4: the comparison of two rows is lexicographic over (date, currency,
\* amount as text, transaction_type, payee): the first of these fields in which
\* the rows differ decides, so rows with different dates are ordered by date
\* whatever their other fields; memo and source take no part, so the rows are
\* Equal exactly when those five fields agree.
C4_LexicographicOverFiveFields ==
    (call.fn = "cmp" /\ call.done) =>
        LET a == call.arg[1]
            b == call.arg[2]
            diff == Differing(a, b)
        IN  /\ diff = {} <=> call.ret = "Equal"
            /\ diff # {} =>
                  LET first == CHOOSE i \in diff : \A j \in diff : i <= j
                  IN  /\ call.ret = FieldCmp(KeyFields[first], a, b)
                      /\ call.ret # "Equal"
            /\ a.date # b.date =>
                  call.ret = (IF DateBefore(a.date, b.date) THEN "Less" ELSE "Greater")

\* C4 witness: two rows that agree on date and currency have been compared,
\* and "10,0" sorted before "9,0" (as text, not as a number)
C4_Witness ==
    /\ call.fn = "cmp" /\ call.done
    /\ call.arg[1].date = call.arg[2].date
    /\ call.arg[1].currency = call.arg[2].currency
    /\ call.arg[1].amount = <<"1", "0", ",", "0">>
    /\ call.arg[2].amount = <<"9", ",", "0">>
    /\ call.arg[1].memo # call.arg[2].memo
    /\ call.ret = "Less"

----------------------------------------------------------------------------
(* detect_separator *)

MaxLineSegments == 3

\* all concatenations of at most n of the strings segs
RECURSIVE Concatenations(_, _)
Concatenations(segs, n) ==
    IF n = 0 THEN { << >> }
    ELSE LET shorter == Concatenations(segs, n - 1)
         IN  shorter \cup { s \o t : s \in shorter, t \in segs }

FirstLines == Concatenations({<<";">>, <<",">>, <<"\t">>, GIROKONTO, <<"a">>}, MaxLineSegments)

\* a later line, which detect_separator never reads
LaterLines == { <<";">>, GIROKONTO \o <<",">> }

File(openable, lines, first_line_readable) ==
    [openable |-> openable, lines |-> lines, first_line_readable |-> first_line_readable]

DetectFiles ==
    {File(FALSE, << >>, FALSE), File(TRUE, << >>, TRUE)}
        \cup { File(TRUE, <<l>>, r) : l \in FirstLines, r \in BOOLEAN }
        \cup { File(TRUE, <<l, m>>, TRUE) : l \in FirstLines, m \in LaterLines }

InitDetect ==
    /\ call \in { NewCall("detect_separator", f) : f \in DetectFiles }
    /\ MergeIdle

CallDetectSeparator ==
    /\ call.fn = "detect_separator" /\ ~call.done
    /\ Return(detect_separator(call.arg))
    /\ UNCHANGED mergeVars

NextDetect == CallDetectSeparator

SpecDetect == InitDetect /\ [][NextDetect]_vars

\* the character c occurs in the string s
HasChar(s, c) == \E i \in 1..Len(s) : s[i] = c

\* the string pat occurs in the string s
HasString(s, pat) ==
    \E i \in 1..Len(s) :
        /\ i + Len(pat) - 1 <= Len(s)
        /\ \A k \in 1..Len(pat) : s[i + k - 1] = pat[k]

\* C9: detect_separator decides from the first line only: semicolon if the
\* line contains ';', otherwise comma if it contains ',', otherwise tab if it
\* contains a tab, otherwise the no-separator error; a file with no first line
\* gives the error-reading-the-first-line error; the DKB hint is returned
\* exactly when a delimiter was found and the first line contains "Girokonto".
C9_SeparatorFromFirstLine ==
    (call.fn = "detect_separator" /\ call.done /\ call.arg.openable) =>
        IF call.arg.lines = << >>
        THEN ~call.ret.ok /\ call.ret.err = "InvalidData: Error reading the first line"
        ELSE call.arg.first_line_readable =>
            LET first_line == call.arg.lines[1]
                found == \E c \in {";", ",", "\t"} : HasChar(first_line, c)
            IN  /\ call.ret.ok <=> found
                /\ ~found => call.ret.err = "NotFound: No separator found in the first line"
                /\ found =>
                      /\ call.ret.value[1] =
                            (IF HasChar(first_line, ";") THEN ";"
                             ELSE IF HasChar(first_line, ",") THEN "," ELSE "\t")
                      /\ call.ret.value[2] = Some("DKB")
                            <=> HasString(first_line, <<"G", "i", "r", "o", "k", "o", "n", "t", "o">>)
                      /\ call.ret.value[2] \in {None, Some("DKB")}

\* C9 witness: a first line with a comma before a semicolon and the marker,
\* for which the semicolon and the DKB hint were returned
C9_Witness ==
    /\ call.fn = "detect_separator" /\ call.done
    /\ call.arg.lines # << >>
    /\ call.arg.lines[1] = <<",">> \o GIROKONTO \o <<";">>
    /\ call.ret = Ok(<<";", Some("DKB")>>)

----------------------------------------------------------------------------
(* dkb_edit_file *)

MaxLines == 3

EditLines ==
    { <<"x">>, GIROKONTO \o <<";">>, VERWENDUNGSZWECK,
      <<"a", ";">> \o VERWENDUNGSZWECK \o <<";", "b">> }

\* all sequences of at most n elements of S
RECURSIVE SeqsUpTo(_, _)
SeqsUpTo(S, n) ==
    IF n = 0 THEN { << >> }
    ELSE LET shorter == SeqsUpTo(S, n - 1)
         IN  shorter \cup { Append(s, x) : s \in shorter, x \in S }

InitEdit ==
    /\ call \in { NewCall("dkb_edit_file", lines) : lines \in SeqsUpTo(EditLines, MaxLines) }
    /\ MergeIdle

\* one pass of the loop over decoded.lines()
EditLine ==
    /\ call.fn = "dkb_edit_file" /\ ~call.done
    /\ call.i < Len(call.arg)
    /\ call' = [call EXCEPT !.i = call.i + 1,
                            !.st = dkb_edit_line(call.st, call.arg[call.i + 1])]
    /\ UNCHANGED mergeVars

\* after the loop: flush and Ok(())
EditReturn ==
    /\ call.fn = "dkb_edit_file" /\ ~call.done
    /\ call.i = Len(call.arg)
    /\ Return(Ok(call.st.out))
    /\ UNCHANGED mergeVars

NextEdit == EditLine \/ EditReturn

SpecEdit == InitEdit /\ [][NextEdit]_vars

\* the indices among the first n lines that contain the header marker
MarkerLines(lines, n) ==
    { k \in 1..n : HasString(lines[k], <<"V", "e", "r", "w", "e", "n", "d", "u", "n", "g",
                                         "s", "z", "w", "e", "c", "k">>) }

\* C10: at every point of the scan, nothing has been written if no line read
\* so far contains the marker; otherwise exactly the lines from the first
\* marker line to the last line read have been written, in order and none
\* omitted; the call returns success with that output, which is empty when no
\* line contains the marker.
C10_WritesFromFirstMarkerLine ==
    call.fn = "dkb_edit_file" =>
        LET seen == MarkerLines(call.arg, call.i)
            expected ==
                IF seen = {} THEN << >>
                ELSE SubSeq(call.arg, CHOOSE k \in seen : \A j \in seen : k <= j, call.i)
        IN  /\ call.st.out = expected
            /\ call.done => /\ call.i = Len(call.arg)
                             /\ call.ret = Ok(expected)

\* C10 witness: a file whose second line is the first with the marker and
\* whose third line has no marker; lines two and three were written
C10_Witness ==
    /\ call.fn = "dkb_edit_file" /\ call.done
    /\ Len(call.arg) = 3
    /\ MarkerLines(call.arg, 3) = {2}
    /\ call.ret.value = <<call.arg[2], call.arg[3]>>

----------------------------------------------------------------------------
(* filter_data_frame *)

Fingerprints ==
    <<PAYPAL_COLUMNS, PAYPAL_COLUMNS_OLD, N26_COLUMNS, N26_COLUMNS_2024_09, DKB_COLUMNS,
      DKB_COLUMNS_2024_09>>

\* the columns after the first five that the filters and the selection of each
\* format name
OtherColumns ==
    << <<"Currency", "Gross", "Balance Impact", "Transaction ID">>,
       <<"Gross", "Name", "Transaction ID">>,
       <<"Type Foreign Currency", "Amount (EUR)", "Amount (Foreign Currency)">>,
       <<"Original Currency", "Amount (EUR)", "Original Amount", "Payment Reference">>,
       <<"Mandatsreferenz", "Betrag (EUR)">>,
       <<"Mandatsreferenz", "Betrag (€)", "Umsatztyp", "Verwendungszweck">> >>

\* seq with the elements at i and i + 1 exchanged
SwapAt(seq, i) ==
    [k \in 1..Len(seq) |-> IF k = i THEN seq[i + 1] ELSE IF k = i + 1 THEN seq[i] ELSE seq[k]]

\* the headers tried: each fingerprint alone and followed by its other
\* columns, its prefixes, its reorderings, with one name changed, and shifted
\* by a leading column
FilterHeaders ==
    UNION { {Fingerprints[f], Fingerprints[f] \o OtherColumns[f],
             <<"Id">> \o Fingerprints[f] \o OtherColumns[f]}
            \cup { SubSeq(Fingerprints[f], 1, n) : n \in 0..(NUM_FIRST_COLUMNS - 1) }
            \cup { SwapAt(Fingerprints[f], i) \o OtherColumns[f]
                      : i \in 1..(NUM_FIRST_COLUMNS - 1) }
            \cup { [Fingerprints[f] EXCEPT ![i] = "Other"] \o OtherColumns[f]
                      : i \in 1..NUM_FIRST_COLUMNS }
            : f \in 1..Len(Fingerprints) }

InitFilter ==
    /\ call \in { NewCall("filter_data_frame",
                           [df |-> [columns |-> h, rows |-> << >>], upper_currency |-> c])
                     : h \in FilterHeaders, c \in {EUR, USD} }
    /\ MergeIdle

CallFilterDataFrame ==
    /\ call.fn = "filter_data_frame" /\ ~call.done
    /\ Return(filter_data_frame(call.arg.df, call.arg.upper_currency))
    /\ UNCHANGED mergeVars

NextFilter == CallFilterDataFrame

SpecFilter == InitFilter /\ [][NextFilter]_vars

\* the source expected of each fingerprint
ExpectedSource == <<"PayPal", "PayPal", "N26", "N26", "DKB", "DKB">>

\* the column selection expected of each fingerprint: date, currency, amount,
\* transaction type, payee, memo
ExpectedSelection(f, currency) ==
    CASE f = 1 -> <<"Date", "Currency", "Gross", "Type", "Name", "Transaction ID">>
      [] f = 2 -> <<"Date", "Currency", "Gross", "Description", "Name", "Transaction ID">>
      [] f = 3 -> <<"Date", "Type Foreign Currency",
                    IF currency = <<"E", "U", "R">> THEN "Amount (EUR)"
                    ELSE "Amount (Foreign Currency)",
                    "Transaction type", "Payee", "Payment reference">>
      [] f = 4 -> <<"Booking Date", "Original Currency",
                    IF currency = <<"E", "U", "R">> THEN "Amount (EUR)" ELSE "Original Amount",
                    "Type", "Partner Name", "Payment Reference">>
      [] f = 5 -> <<"Buchungstag", "Mandatsreferenz", "Betrag (EUR)", "Buchungstext",
                    "Auftraggeber / Begünstigter", "Verwendungszweck">>
      [] f = 6 -> <<"Buchungsdatum", "Mandatsreferenz", "Betrag (€)", "Umsatztyp",
                    "Zahlungsempfänger*in", "Verwendungszweck">>

\* the fingerprints whose five names are, in order, the first five of header
Matching(header) ==
    { f \in 1..Len(Fingerprints) :
        /\ Len(header) >= 5
        /\ \A k \in 1..5 : header[k] = Fingerprints[f][k] }

\* C2: the first 5 column names are matched exactly and in order against the
\* six fingerprints, which are pairwise distinct, so at most one matches; a
\* matching table gets that fingerprint's source and column selection (and is
\* returned with them whenever the table has the columns they name), and any
\* other header -- a reordering, a shorter prefix -- ends in the
\* unknown-format panic, with no source chosen.
C2_FingerprintDecidesSource ==
    (call.fn = "filter_data_frame" /\ call.done) =>
        LET header == call.arg.df.columns
            hit == Matching(header)
        IN  /\ \A f, g \in 1..Len(Fingerprints) : f # g => Fingerprints[f] # Fingerprints[g]
            /\ Cardinality(hit) <= 1
            /\ \A f \in hit :
                  /\ call.ret.source = ExpectedSource[f]
                  /\ call.ret.columns_to_select = ExpectedSelection(f, call.arg.upper_currency)
                  /\ call.ret.outcome \in {"ok", "panic: collect"}
                  /\ call.ret.outcome = "ok" <=>
                        \A c \in Range(OtherColumns[f]) : c \in Range(header)
            /\ hit = {} =>
                  /\ call.ret.outcome = "panic: Unknown CSV format"
                  /\ call.ret.source = "none"

\* C2 witness: a table with the columns of the N26 2024-09 format, for which
\* N26 was returned
C2_Witness ==
    /\ call.fn = "filter_data_frame" /\ call.done
    /\ take(call.arg.df.columns, 5) = N26_COLUMNS_2024_09
    /\ call.ret.outcome = "ok"
    /\ call.ret.source = "N26"

----------------------------------------------------------------------------
(* dkb_extract_amount *)

MaxMemoSegments == 4

BRL == <<"B", "R", "L">>

MemoSegments ==
    { ORIGINAL, FREMDWAEHRUNG, <<"6", ",", "9", "9", " ">>, BRL, EURO_RATE, <<"x">> }

\* currency codes: three capital letters, which occur inside no keyword phrase
ExtractCurrencies == { BRL, USD }

InitExtract ==
    /\ call \in { NewCall("dkb_extract_amount", [currency |-> c, memo |-> m])
                     : c \in ExtractCurrencies,
                       m \in Concatenations(MemoSegments, MaxMemoSegments) }
    /\ MergeIdle

CallDkbExtractAmount ==
    /\ call.fn = "dkb_extract_amount" /\ ~call.done
    /\ Return(dkb_extract_amount(call.arg.currency, call.arg.memo))
    /\ UNCHANGED mergeVars

NextExtract == CallDkbExtractAmount

SpecExtract == InitExtract /\ [][NextExtract]_vars

\* the 0-based positions at which pat occurs in s
Positions(s, pat) ==
    { i \in 0..Len(s) :
        /\ i + Len(pat) <= Len(s)
        /\ \A k \in 1..Len(pat) : s[i + k] = pat[k] }

\* the least element of a non-empty set of numbers
Least(S) == CHOOSE i \in S : \A j \in S : i <= j

\* the keyword phrase the memo is searched for: "Original " if it occurs,
\* otherwise "Ursprungsbetrag in Fremdwährung " if that occurs
KeywordOf(memo) ==
    IF Positions(memo, <<"O", "r", "i", "g", "i", "n", "a", "l", " ">>) # {}
    THEN Some(<<"O", "r", "i", "g", "i", "n", "a", "l", " ">>)
    ELSE IF Positions(memo, FREMDWAEHRUNG) # {} THEN Some(FREMDWAEHRUNG)
    ELSE None

\* the text of memo from position from (0-based) up to, not including, to,
\* without the whitespace around it
Between(memo, from, to) ==
    LET text == SubSeq(memo, from + 1, to)
        inner == { k \in 1..Len(text) : text[k] \notin {" ", "\t"} }
    IN  IF inner = {} THEN << >>
        ELSE SubSeq(text, Least(inner), CHOOSE k \in inner : \A j \in inner : j <= k)

\* C5 as claimed: whenever the memo contains a keyword phrase and the currency
\* code occurs after it, the result is the trimmed text between the end of the
\* phrase and the currency code; whenever the memo contains no keyword phrase,
\* or no currency code after the phrase, the result is None.
C5_ExtractsWheneverKeywordThenCurrency ==
    (call.fn = "dkb_extract_amount" /\ call.done) =>
        LET memo == call.arg.memo
            keyword == KeywordOf(memo)
        IN  IF keyword = None THEN call.ret = None
            ELSE LET phrase_end == Least(Positions(memo, keyword[1])) + Len(keyword[1])
                     after == { i \in Positions(memo, call.arg.currency) : i >= phrase_end }
                 IN  IF after = {} THEN call.ret = None
                     ELSE call.ret = Some(Between(memo, phrase_end, Least(after)))

\* C5 amended: the result is the trimmed text between the end of the first
\* occurrence of the keyword phrase and the currency code exactly when the
\* memo contains " 1 Euro=", contains a keyword phrase, and the FIRST
\* occurrence of the currency code anywhere in the memo lies at or after the
\* end of that phrase; the result is None when the memo lacks " 1 Euro=" or a
\* keyword phrase, or the currency code does not occur, or its first
\* occurrence is before the phrase.  (For a currency code of three capital
\* letters, which cannot occur inside a keyword phrase.)
C5_ExtractsWhenRateAndFirstCurrencyAfterKeyword ==
    (call.fn = "dkb_extract_amount" /\ call.done) =>
        LET memo == call.arg.memo
            keyword == KeywordOf(memo)
            rate == Positions(memo, <<" ", "1", " ", "E", "u", "r", "o", "=">>) # {}
            codes == Positions(memo, call.arg.currency)
        IN  IF ~rate \/ keyword = None \/ codes = {} THEN call.ret = None
            ELSE LET phrase_start == Least(Positions(memo, keyword[1]))
                     phrase_end == phrase_start + Len(keyword[1])
                 IN  IF Least(codes) >= phrase_end
                     THEN call.ret = Some(Between(memo, phrase_end, Least(codes)))
                     ELSE call.ret = None

\* C5 witness: "Original 6,99 BRL 1 Euro=" with BRL gave "6,99"
C5_Witness ==
    /\ call.fn = "dkb_extract_amount" /\ call.done
    /\ call.arg.currency = BRL
    /\ call.arg.memo = ORIGINAL \o <<"6", ",", "9", "9", " ">> \o BRL \o EURO_RATE
    /\ call.ret = Some(<<"6", ",", "9", "9">>)

----------------------------------------------------------------------------
(* merge_command *)

MaxFiles == 2

MaxRows == 2

\* str::to_uppercase, for the letters of the alphabet that have both cases
LowerCase == <<"a", "b", "d", "e", "f", "g", "l", "n", "o", "p", "r", "s", "t", "u", "x">>

UpperCase == <<"A", "B", "D", "E", "F", "G", "L", "N", "O", "P", "R", "S", "T", "U", "X">>

to_uppercase(s) ==
    [i \in 1..Len(s) |->
        IF \E k \in 1..Len(LowerCase) : LowerCase[k] = s[i]
        THEN UpperCase[CHOOSE k \in 1..Len(LowerCase) : LowerCase[k] = s[i]]
        ELSE s[i]]

\* an input path: whether it exists, what detect_separator finds behind it,
\* whether the CSV reader can parse its text, and the column names of the
\* table it then yields
Path(exists, f, parses, columns) ==
    [exists |-> exists, file |-> f, parses |-> parses, columns |-> columns]

\* CsvReader::from_path(..).finish(): a text without lines has no header and
\* is an error, like a text the reader cannot parse
read_csv(path, lines) ==
    IF lines = << >> THEN Err("csv: empty")
    ELSE IF ~path.parses THEN Err("csv: parse")
    ELSE Ok(path.columns)

Outcome(kind, why, table) == [kind |-> kind, why |-> why, table |-> table]

\* a visit in which an error of detect_separator is propagated like the
\* errors of the calls that follow it
load_detect_aborts(path, upper, tempfile_ok, edit_ok) ==
    IF ~path.exists THEN Outcome("skipped", "does not exist", << >>)
    ELSE LET detected == detect_separator(path.file)
         IN  IF ~detected.ok THEN Outcome("error", detected.err, << >>)
             ELSE IF ~tempfile_ok THEN Outcome("error", "tempfile", << >>)
             ELSE Outcome("error", "csv: parse", << >>)

\* lines 81-119: what the visit of one path comes to before its rows are
\* read; tempfile_ok and edit_ok are the outcomes of NamedTempFile::new() and
\* of the reads and writes of dkb_edit_file
load(path, upper, tempfile_ok, edit_ok) ==
    IF ~path.exists THEN Outcome("skipped", "does not exist", << >>)
    ELSE LET detected == detect_separator(path.file)
         IN  IF ~detected.ok THEN Outcome("skipped", detected.err, << >>)
             ELSE IF ~tempfile_ok THEN Outcome("error", "tempfile", << >>)
             ELSE LET edited == IF detected.value[2] = Some("DKB")
                                THEN dkb_edit_file(path.file, edit_ok)
                                ELSE Ok(path.file.lines)
                  IN  IF ~edited.ok THEN Outcome("error", "dkb_edit_file", << >>)
                      ELSE LET read == read_csv(path, edited.value)
                           IN  IF ~read.ok THEN Outcome("error", read.err, << >>)
                               ELSE LET filtered == filter_data_frame(
                                            [columns |-> read.value, rows |-> << >>], upper)
                                    IN  IF filtered.outcome # "ok"
                                        THEN Outcome("panic", filtered.outcome, << >>)
                                        ELSE Outcome("loaded", "none",
                                                     [columns |-> read.value,
                                                      source |-> filtered.source])

\* the six values of df_filtered's row for the row r of the table, or << >>
\* if the filters drop r
filtered_row(table, upper, r) ==
    filter_data_frame([columns |-> table.columns, rows |-> <<r>>], upper).rows

\* the rows among `rows` that are rows of the table and pass its filters
rows_of(table, upper, rows) ==
    { r \in rows : /\ DOMAIN r = Range(table.columns)
                   /\ filtered_row(table, upper, r) # << >> }

NoFile == [kind |-> "none", why |-> "none"]

NoPush == [kind |-> "none", transaction |-> << >>, index |-> 0, found |-> None]

\* lines 58-80
Start(output_dirs, currencies, max_files) ==
    /\ pc = "start"
    /\ \E dir_ok \in output_dirs, currency \in currencies, n \in 0..max_files :
          IF dir_ok
          THEN /\ pc' = "files"
               /\ upper_currency' = to_uppercase(currency)
               /\ files_left' = n
               /\ error' = "none"
          ELSE /\ pc' = "aborted"
               /\ error' = "output directory"
               /\ UNCHANGED <<upper_currency, files_left>>
    /\ UNCHANGED <<call, file_result, df_csv, rows_left, row, push_result,
                   currency_transactions, transaction_map, sorted_keys, written>>

\* lines 81-122: the next path of csv_file_paths, up to the loop over the
\* rows; height is df_filtered.height()
VisitFile(paths, rows, max_rows) ==
    /\ pc = "files" /\ files_left > 0
    /\ \E path \in paths, tempfile_ok, edit_ok \in BOOLEAN, height \in 0..max_rows :
          LET loaded == load(path, upper_currency, tempfile_ok, edit_ok)
          IN  /\ file_result' = [kind |-> loaded.kind, why |-> loaded.why]
              /\ files_left' = files_left - 1
              /\ IF loaded.kind = "loaded"
                 THEN /\ height > 0 => rows_of(loaded.table, upper_currency, rows) # {}
                      /\ pc' = "rows"
                      /\ df_csv' = loaded.table
                      /\ rows_left' = height
                      /\ error' = "none"
                 ELSE IF loaded.kind = "skipped"
                 THEN /\ pc' = "files"
                      /\ UNCHANGED <<df_csv, rows_left, error>>
                 ELSE /\ pc' = "aborted"
                      /\ error' = loaded.why
                      /\ UNCHANGED <<df_csv, rows_left>>
    /\ UNCHANGED <<call, upper_currency, row, push_result, currency_transactions,
                   transaction_map, sorted_keys, written>>

\* line 125: get_row_amortized fills the row buffer with the next row of
\* df_filtered
GetRow(rows) ==
    /\ pc = "rows" /\ rows_left > 0
    /\ \E r \in rows_of(df_csv, upper_currency, rows) :
          row' = filtered_row(df_csv, upper_currency, r)[1]
    /\ pc' = "row"
    /\ UNCHANGED <<call, upper_currency, files_left, file_result, df_csv, rows_left,
                   push_result, currency_transactions, transaction_map, sorted_keys,
                   written, error>>

\* lines 127-185: the rest of the loop body
ProcessRow ==
    /\ pc = "row"
    /\ LET result == process_row(df_csv.source, upper_currency, row)
       IN  IF result.kind = "continue"
           THEN /\ pc' = "rows"
                /\ rows_left' = rows_left - 1
                /\ push_result' = NoPush
                /\ UNCHANGED <<currency_transactions, error>>
           ELSE IF result.kind = "error"
           THEN /\ pc' = "aborted"
                /\ error' = result.error
                /\ push_result' = NoPush
                /\ UNCHANGED <<currency_transactions, rows_left>>
           ELSE \E replaces \in BOOLEAN :
                  LET pushed == push(currency_transactions, result.transaction, replaces)
                  IN  /\ currency_transactions' = pushed.set
                      /\ push_result' = [kind |-> "push",
                                          transaction |-> result.transaction,
                                          index |-> pushed.index, found |-> pushed.found]
                      /\ pc' = "rows"
                      /\ rows_left' = rows_left - 1
                      /\ UNCHANGED error
    /\ UNCHANGED <<call, upper_currency, files_left, file_result, df_csv, row,
                   transaction_map, sorted_keys, written>>

\* line 186: the rows of the file are exhausted
EndRows ==
    /\ pc = "rows" /\ rows_left = 0
    /\ pc' = "files"
    /\ UNCHANGED <<call, upper_currency, files_left, file_result, df_csv, rows_left, row,
                   push_result, currency_transactions, transaction_map, sorted_keys,
                   written, error>>

YearMonth(transaction) == <<transaction.date.year, transaction.date.month>>

\* lines 190-198: every transaction pushed to the set of its (year, month)
RECURSIVE group(_, _)
group(map, transactions) ==
    IF transactions = << >> THEN map
    ELSE LET t == Head(transactions)
         IN  group([map EXCEPT ![YearMonth(t)] = push(map[YearMonth(t)], t, TRUE).set],
                   Tail(transactions))

\* Ord for (i32, u32)
key_le(a, b) == a[1] < b[1] \/ (a[1] = b[1] /\ a[2] <= b[2])

\* lines 201-202: the keys in descending order
RECURSIVE sort_descending(_)
sort_descending(keys) ==
    IF keys = {} THEN << >>
    ELSE LET m == CHOOSE k \in keys : \A j \in keys : key_le(j, k)
         IN  <<m>> \o sort_descending(keys \ {m})

\* lines 201-202: the keys in ascending order
RECURSIVE sort(_)
sort(keys) ==
    IF keys = {} THEN << >>
    ELSE LET m == CHOOSE k \in keys : \A j \in keys : key_le(k, j)
         IN  <<m>> \o sort(keys \ {m})

\* lines 189-202
Group ==
    /\ pc = "files" /\ files_left = 0
    /\ LET keys == { YearMonth(currency_transactions[k])
                       : k \in 1..Len(currency_transactions) }
       IN  /\ transaction_map' = group([k \in keys |-> << >>], currency_transactions)
           /\ sorted_keys' = sort(keys)
    /\ pc' = "write"
    /\ UNCHANGED <<call, upper_currency, files_left, file_result, df_csv, rows_left, row,
                   push_result, currency_transactions, written, error>>

DigitChar(n) == Alphabet[Code("0") + n]

\* {:02} and {:04} of a number below 100 and below 10000
pad2(n) == <<DigitChar(n \div 10), DigitChar(n % 10)>>

pad4(n) == pad2(n \div 100) \o pad2(n % 100)

\* lines 207-210
file_name(upper, year, month) ==
    <<"b", "a", "n", "k", "-", "c", "s", "v", "-", "t", "r", "a", "n", "s", "a", "c", "t",
      "i", "o", "n", "s", "-">> \o upper \o <<"-">> \o pad4(year) \o <<"-">>
        \o pad2(month) \o <<".", "c", "s", "v">>

\* CsvOutputRow::header
CsvOutputRow_header == <<"Date", "Source", "Currency", "Amount", "Type", "Payee", "Memo">>

\* CsvOutputRow::to_record
to_record(self) ==
    <<pad4(self.date.year) \o <<"-">> \o pad2(self.date.month) \o <<"-">>
        \o pad2(self.date.day),
      self.source, self.currency, self.amount, self.transaction_type, self.payee,
      self.memo>>

\* lines 205-221: one pass of the loop over sorted_keys; the Writer may fail
WriteFile ==
    /\ pc = "write" /\ sorted_keys # << >>
    /\ \E io_ok \in BOOLEAN :
          LET key == Head(sorted_keys)
              transactions == transaction_map[key]
          IN  IF io_ok
              THEN /\ written' = Append(written,
                          [name |-> file_name(upper_currency, key[1], key[2]),
                           header |-> CsvOutputRow_header,
                           records |-> [k \in 1..Len(transactions) |->
                                           to_record(transactions[k])]])
                   /\ sorted_keys' = Tail(sorted_keys)
                   /\ UNCHANGED <<pc, error>>
              ELSE /\ pc' = "aborted"
                   /\ error' = "io: write"
                   /\ UNCHANGED <<written, sorted_keys>>
    /\ UNCHANGED <<call, upper_currency, files_left, file_result, df_csv, rows_left, row,
                   push_result, currency_transactions, transaction_map>>

\* line 222
Finish ==
    /\ pc = "write" /\ sorted_keys = << >>
    /\ pc' = "done"
    /\ UNCHANGED <<call, upper_currency, files_left, file_result, df_csv, rows_left, row,
                   push_result, currency_transactions, transaction_map, sorted_keys,
                   written, error>>

----------------------------------------------------------------------------
(* The inputs of merge_command *)

\* a row of a table: the given values in the columns named, "" elsewhere
RowOf(columns, values) ==
    [c \in Range(columns) |-> IF c \in DOMAIN values THEN values[c] ELSE Str(<< >>)]

N26Table == N26_COLUMNS_2024_09 \o OtherColumns[4]

DKBTable == DKB_COLUMNS_2024_09 \o OtherColumns[6]

PayPalTable == PAYPAL_COLUMNS \o OtherColumns[1]

N26Row(date, currency, amount_eur, original_amount, type, partner, reference) ==
    RowOf(N26Table,
          ("Booking Date" :> date) @@ ("Original Currency" :> currency)
            @@ ("Amount (EUR)" :> amount_eur) @@ ("Original Amount" :> original_amount)
            @@ ("Type" :> type) @@ ("Partner Name" :> partner)
            @@ ("Payment Reference" :> reference))

DKBRow(date, amount, type, payee, memo) ==
    RowOf(DKBTable,
          ("Buchungsdatum" :> date) @@ ("Betrag (€)" :> amount) @@ ("Umsatztyp" :> type)
            @@ ("Zahlungsempfänger*in" :> payee) @@ ("Verwendungszweck" :> memo))

PayPalRow(date, currency, gross, type, name, id, impact) ==
    RowOf(PayPalTable,
          ("Date" :> date) @@ ("Currency" :> currency) @@ ("Gross" :> gross)
            @@ ("Type" :> type) @@ ("Name" :> name) @@ ("Transaction ID" :> id)
            @@ ("Balance Impact" :> impact))

BAR == <<"B", "a", "r">>

\* "Original 6,99 BRL 1 Euro="
MEMO_BRL == ORIGINAL \o <<"6", ",", "9", "9", " ">> \o BRL \o EURO_RATE

\* "x 1 Euro=Original 6,99 BRL"
MEMO_BRL_LAST == <<"x">> \o EURO_RATE \o ORIGINAL \o <<"6", ",", "9", "9", " ">> \o BRL

\* the rows of the input tables.  N26: 2024-01-15 (day 19737 since
\* 1970-01-01) with EUR, null, "" and BRL as currency, the EUR row with a second
\* memo as well, and 2024-02-15.  DKB: "31.12.23", "15.01.2024" and "1.1.2024"
\* (eight characters, so read with a 2-digit year, which fails) with a foreign
\* amount in the memo, and "15.01.2024" without and with one at its end.  PayPal: rows that pass and
\* rows that fail the filters.
MergeRows ==
    { N26Row(Date(19737), c, F64(<<"1", "2", ".", "5">>), F64(<<"1", "5", ".", "0">>),
             Str(PRESENTMENT), Str(BAR), Str(<<"m">>))
        : c \in {Str(EUR), Null, Str(<< >>), Str(BRL)} }
    \cup
    { N26Row(Date(19737), Str(EUR), F64(<<"1", "2", ".", "5">>),
             F64(<<"1", "5", ".", "0">>), Str(PRESENTMENT), Str(BAR), Str(<<"n">>)),
      N26Row(Date(19768), Str(EUR), F64(<<"1", "2", ".", "5">>),
             F64(<<"1", "5", ".", "0">>), Str(PRESENTMENT), Str(BAR), Str(<<"m">>)),
      DKBRow(Str(<<"1", "5", ".", "0", "1", ".", "2", "0", "2", "4">>),
             Str(<<"-", "1", "2", ",", "5">>), Str(<<"A", "u", "s">>), Str(BAR),
             Str(<<"m">>)),
      DKBRow(Str(<<"1", "5", ".", "0", "1", ".", "2", "0", "2", "4">>),
             Str(<<"-", "1", "2", ",", "5">>), Str(<<"A", "u", "s">>), Str(BAR),
             Str(MEMO_BRL_LAST)) }
    \cup
    { DKBRow(Str(d), Str(<<"-", "1", "2", ",", "5">>), Str(<<"A", "u", "s">>), Str(BAR),
             Str(MEMO_BRL))
        : d \in { <<"3", "1", ".", "1", "2", ".", "2", "3">>,
                  <<"1", "5", ".", "0", "1", ".", "2", "0", "2", "4">>,
                  <<"1", ".", "1", ".", "2", "0", "2", "4">> } }
    \cup
    { PayPalRow(Date(19737), Str(EUR), F64(<<"-", "7", ".", "0">>), Str(t), Str(BAR),
                Str(<<"m">>), Str(i))
        : t \in {<<"P", "a", "y">>, GENERAL_CURRENCY_CONVERSION},
          i \in {DEBIT, <<"C", "r", "e", "d", "i", "t">>} }

MergePaths ==
    { Path(FALSE, File(FALSE, << >>, FALSE), FALSE, << >>),
      Path(TRUE, File(FALSE, << >>, FALSE), FALSE, << >>),
      Path(TRUE, File(TRUE, << >>, TRUE), FALSE, << >>),
      Path(TRUE, File(TRUE, << <<"a">> >>, TRUE), TRUE, N26Table),
      Path(TRUE, File(TRUE, << <<"a", ",", "b">> >>, FALSE), TRUE, N26Table),
      Path(TRUE, File(TRUE, << <<"a", ",", "b">>, <<"x">> >>, TRUE), TRUE, N26Table),
      Path(TRUE, File(TRUE, << GIROKONTO \o <<";">>, <<"x">>,
                               <<"a", ";">> \o VERWENDUNGSZWECK, <<"x">> >>, TRUE),
           TRUE, DKBTable),
      Path(TRUE, File(TRUE, << GIROKONTO \o <<";">>, <<"x">> >>, TRUE), TRUE, DKBTable),
      Path(TRUE, File(TRUE, << <<"a", "\t", "b">>, <<"x">> >>, TRUE), TRUE, PayPalTable),
      Path(TRUE, File(TRUE, << <<"a", ",", "b">>, <<"x">> >>, TRUE), FALSE, << >>),
      Path(TRUE, File(TRUE, << <<"a", ";", "b">>, <<"x">> >>, TRUE), TRUE,
           <<"Id", "Date", "Payee", "Amount", "Currency", "Memo">>) }

\* "eur", "EUR", "brl" and "brl" followed by a double quote
MergeCurrencies == { <<"e", "u", "r">>, EUR, <<"b", "r", "l">>, <<"b", "r", "l", "\"">> }

Init ==
    /\ call = NewCall("merge_command", << >>)
    /\ pc = "start"
    /\ upper_currency = << >>
    /\ files_left = 0
    /\ file_result = NoFile
    /\ df_csv = << >>
    /\ rows_left = 0
    /\ row = << >>
    /\ push_result = NoPush
    /\ currency_transactions = << >>
    /\ transaction_map = << >>
    /\ sorted_keys = << >>
    /\ written = << >>
    /\ error = "none"

Next ==
    \/ Start(BOOLEAN, MergeCurrencies, MaxFiles)
    \/ VisitFile(MergePaths, MergeRows, MaxRows)
    \/ GetRow(MergeRows)
    \/ ProcessRow
    \/ EndRows
    \/ Group
    \/ WriteFile
    \/ Finish

Spec == Init /\ [][Next]_vars

----------------------------------------------------------------------------
(* merge_command: the visit of the input files *)

\* the failures after which the code continues with the next path
SkippedFailures ==
    { "does not exist", "open", "InvalidData: Error reading the first line", "read",
      "NotFound: No separator found in the first line" }

\* the failures of one input file that the code propagates with `?`
PropagatedFailures == { "tempfile", "dkb_edit_file", "csv: empty", "csv: parse" }

\* C1 as claimed: no failure confined to one input file (it does not exist, its
\* first line is missing, unreadable or without delimiter, its preamble cannot
\* be stripped or its table cannot be parsed) aborts the run.
C1_NoFileFailureAborts ==
    pc = "aborted" => error \notin (SkippedFailures \cup PropagatedFailures)

\* C1 amended: a file that does not exist or whose separator cannot be detected
\* (it cannot be opened, has no or an unreadable first line, or no delimiter in
\* it) is skipped: the merged set is left as it was and the run goes on with
\* the next path; a failure to create the temporary file, to strip the DKB
\* preamble or to parse the table (an empty table included) aborts the run
\* with that error, as an unmatched fingerprint and an invalid output
\* directory do.
C1_SkipsOnlyMissingOrUndetectable ==
    /\ [](/\ file_result.why \in SkippedFailures =>
                file_result.kind = "skipped" /\ error # file_result.why
          /\ file_result.why \in PropagatedFailures =>
                pc = "aborted" /\ error = file_result.why
          /\ file_result.why = "panic: Unknown CSV format" =>
                pc = "aborted" /\ error = file_result.why)
    /\ [][(pc = "files" /\ files_left' = files_left - 1
              /\ file_result'.why \in SkippedFailures) =>
            /\ pc' = "files"
            /\ currency_transactions' = currency_transactions
            /\ error' = error]_vars

\* C1 witness: the run has finished and written a file although the last path
\* visited had no delimiter in its first line
C1_Witness ==
    /\ pc = "done"
    /\ written # << >>
    /\ file_result = [kind |-> "skipped",
                      why |-> "NotFound: No separator found in the first line"]

----------------------------------------------------------------------------
(* merge_command: the merged set *)

\* no element of the sequence is Less than or Equal to an earlier one
StrictlySorted(set) ==
    \A i, j \in 1..Len(set) : i < j => cmp(set[i], set[j]) = "Less"

\* C3: the merged set holds no two rows that are Equal under cmp; pushing a row
\* that is Equal to a member leaves the number of rows and, position by
\* position, the five compared fields of every member as they were (the row
\* kept at that position is the old or the new one of the two Equal rows), and
\* pushing a row Equal to no member adds exactly one row.
C3_EqualPushKeepsTheSet ==
    /\ []StrictlySorted(currency_transactions)
    /\ [][(pc = "row" /\ push_result'.kind = "push") =>
            LET old == currency_transactions
                new == currency_transactions'
                t == push_result'.transaction
            IN  IF \E k \in 1..Len(old) : cmp(old[k], t) = "Equal"
                THEN /\ Len(new) = Len(old)
                     /\ \A k \in 1..Len(old) : cmp(new[k], old[k]) = "Equal"
                     /\ \A k \in 1..Len(old) : new[k] \in {old[k], t}
                ELSE /\ Len(new) = Len(old) + 1
                     /\ \E k \in 1..Len(new) : new[k] = t]_vars

\* C3 witness: a row has been pushed whose five compared fields are those of
\* the one member of the set and whose memo is another, and the set still has
\* one row
C3_Witness ==
    /\ push_result.kind = "push"
    /\ push_result.found # None
    /\ push_result.found[1].memo # push_result.transaction.memo
    /\ Len(currency_transactions) = 1
    /\ files_left = 0

----------------------------------------------------------------------------
(* merge_command: the output files *)

\* the (year, month) pairs among the dates of the merged rows
MergedKeys ==
    { YearMonth(currency_transactions[k]) : k \in 1..Len(currency_transactions) }

\* the i-th of MergedKeys in ascending order: the one with i - 1 smaller ones
KeyAt(i) ==
    CHOOSE k \in MergedKeys :
        Cardinality({ j \in MergedKeys : j # k /\ key_le(j, k) }) = i - 1

\* the merged rows of the (year, month) key, in the order of the merged set
RowsOfMonth(key) ==
    SelectSeq(currency_transactions, LAMBDA t : YearMonth(t) = key)

\* C7: when the run is done, the files written are one per (year, month) among
\* the dates of the merged rows, in ascending order of (year, month); the file
\* of a (year, month) holds the header and then exactly the merged rows of
\* that year and month, in the order of the merged set.
C7_OneFilePerMonthAscending ==
    pc = "done" =>
        /\ Len(written) = Cardinality(MergedKeys)
        /\ \A i \in 1..Len(written) :
              /\ written[i].name = file_name(upper_currency, KeyAt(i)[1], KeyAt(i)[2])
              /\ written[i].header = CsvOutputRow_header
              /\ Len(written[i].records) = Len(RowsOfMonth(KeyAt(i)))
              /\ \A k \in 1..Len(written[i].records) :
                    written[i].records[k] = to_record(RowsOfMonth(KeyAt(i))[k])

\* C7 witness: the run is done with two files written, for two months, and
\* two rows in one of them
C7_Witness ==
    /\ pc = "done"
    /\ Len(written) = 2
    /\ Len(currency_transactions) = 3
    /\ \E i \in 1..2 : Len(written[i].records) = 2

----------------------------------------------------------------------------
(* merge_command: the loop body on one row of df_filtered *)

RowTables == { N26Table, DKBTable, PayPalTable }

RowCurrencies == { EUR, BRL }

RowAmounts == { <<"1", "2", ".", "5">>, <<"-", "5", ".", "0">> }

RowTypes == { PRESENTMENT, PRESENTMENT_REFUND, <<"P", "a", "y">> }

\* rows of the three tables, with signed and unsigned amounts
RowUniverse ==
    { N26Row(Date(d), c, F64(a), F64(a), Str(t), Str(BAR), Str(<<"m">>))
        : d \in {19737, 19768}, c \in {Str(EUR), Null, Str(BRL)}, a \in RowAmounts,
          t \in RowTypes }
    \cup
    { DKBRow(Str(<<"1", "5", ".", "0", "1", ".", "2", "0", "2", "4">>), Str(a), Str(t),
             Str(BAR), Str(m))
        : a \in { <<"-", "1", "2", ",", "5">>, <<"1", "2", ",", "5">> },
          t \in RowTypes, m \in {MEMO_BRL, <<"m">>} }
    \cup
    { PayPalRow(Date(19737), Str(c), F64(a), Str(t), Str(BAR), Str(<<"m">>), Str(DEBIT))
        : c \in RowCurrencies, a \in RowAmounts, t \in RowTypes }

\* the source and the six values of the row r of the table with these
\* columns, as filter_data_frame hands them over for the target currency
RowInput(columns, upper, r) ==
    [source |-> filter_data_frame([columns |-> columns, rows |-> << >>], upper).source,
     upper |-> upper,
     row |-> filtered_row([columns |-> columns], upper, r)[1]]

\* every row of RowUniverse that filter_data_frame lets through
InitRow ==
    /\ \E columns \in RowTables, upper \in RowCurrencies :
          call \in { NewCall("process_row", RowInput(columns, upper, r))
                       : r \in rows_of([columns |-> columns], upper, RowUniverse) }
    /\ MergeIdle

CallProcessRow ==
    /\ call.fn = "process_row" /\ ~call.done
    /\ Return(process_row(call.arg.source, call.arg.upper, call.arg.row))
    /\ UNCHANGED mergeVars

NextRow == CallProcessRow

SpecRow == InitRow /\ [][NextRow]_vars

\* the text starts with a minus sign
Negative(text) == Len(text) > 0 /\ text[1] = "-"

\* C6: the output row of an N26 row of type "Presentment" has an amount with
\* exactly one leading minus sign, whether or not the amount of the source
\* was signed; the output row of any other row has an amount of the sign of
\* the source's amount.
C6_PresentmentHasOneMinusSign ==
    (call.fn = "process_row" /\ call.done /\ call.ret.kind = "push") =>
        LET raw == strip_quotes(to_string(call.arg.row[3]))
            transaction_type == strip_quotes(to_string(call.arg.row[4]))
            amount == call.ret.transaction.amount
        IN  IF call.arg.source = "N26" /\ transaction_type = PRESENTMENT
            THEN Negative(amount) /\ ~Negative(Tail(amount))
            ELSE Negative(amount) <=> Negative(raw)

\* C11: a DKB row is kept with currency EUR and the amount of its amount
\* column when the target currency is EUR, whatever its memo; with any other
\* target currency it is dropped (the loop continues with the next row) when
\* dkb_extract_amount finds no amount in its memo, and is otherwise kept with
\* the target currency and the extracted amount, prefixed with a minus sign
\* exactly when the amount column contained '-'.
C11_DkbAmountFromMemoUnlessEur ==
    (call.fn = "process_row" /\ call.done /\ call.arg.source = "DKB") =>
        LET raw == strip_quotes(to_string(call.arg.row[3]))
            extracted == dkb_extract_amount(call.arg.upper, to_string(call.arg.row[6]))
        IN  IF call.arg.upper = EUR
            THEN /\ call.ret.kind = "push"
                 /\ call.ret.transaction.currency = EUR
                 /\ call.ret.transaction.amount = raw
            ELSE IF extracted = None THEN call.ret = Continue
            ELSE /\ call.ret.kind = "push"
                 /\ call.ret.transaction.currency = call.arg.upper
                 /\ call.ret.transaction.amount =
                       (IF HasChar(raw, "-") THEN <<"-">> ELSE << >>) \o extracted[1]

\* C11 witness: a DKB row with the unsigned amount "12,5" and the memo
\* "Original 6,99 BRL 1 Euro=" was kept for BRL with the amount "6,99"
C11_Witness ==
    /\ call.fn = "process_row" /\ call.done
    /\ call.arg.source = "DKB" /\ call.arg.upper = BRL
    /\ call.arg.row[3] = Str(<<"1", "2", ",", "5">>)
    /\ call.arg.row[6] = Str(MEMO_BRL)
    /\ call.ret.kind = "push"
    /\ call.ret.transaction.amount = <<"6", ",", "9", "9">>
    /\ call.ret.transaction.currency = BRL

----------------------------------------------------------------------------
(* merge_command: the date of a row *)

INVALID_DATE == "ParseError: invalid date"

\* the text read as day.month.year with a 2-digit year when it has eight
\* characters, and with a 4-digit year otherwise
ByLength(text) ==
    IF Len(text) = 8 THEN parse_from_str(text, TRUE) ELSE parse_from_str(text, FALSE)

\* the loop body gets to the date of the row: the row is not a DKB row dropped
\* for want of an amount in its memo
ReachesDate ==
    ~(/\ df_csv.source = "DKB"
      /\ upper_currency # EUR
      /\ dkb_extract_amount(upper_currency, to_string(row[6])) = None)

\* C12: when the loop body gets to a date that is text, the date of the row is
\* the text read with a 2-digit year exactly when the text has eight
\* characters, and with a 4-digit year otherwise; if the text does not parse
\* that way, the run is aborted with an invalid-date error, the row and the
\* rest of the input are not merged, and no output file has been or will be
\* written, whatever was merged from earlier rows and files.
C12_DateByLengthOrAbort ==
    /\ [](error = INVALID_DATE => pc = "aborted" /\ written = << >>)
    /\ [][(pc = "row" /\ pc' # "row" /\ row[1].t = "String" /\ ReachesDate) =>
            IF ByLength(row[1].v) = None
            THEN /\ pc' = "aborted"
                 /\ error' = INVALID_DATE
                 /\ currency_transactions' = currency_transactions
                 /\ written' = << >>
            ELSE /\ pc' = "rows"
                 /\ push_result'.kind = "push"
                 /\ push_result'.transaction.date = ByLength(row[1].v)[1]]_vars

\* C12 witness: the run was aborted on the date "1.1.2024" of a DKB row (eight
\* characters, so read with a 2-digit year) after a row of an N26 file had
\* been merged, and nothing has been written
C12_Witness ==
    /\ pc = "aborted" /\ error = INVALID_DATE
    /\ df_csv.source = "DKB"
    /\ row[1] = Str(<<"1", ".", "1", ".", "2", "0", "2", "4">>)
    /\ \E k \in 1..Len(currency_transactions) : currency_transactions[k].source = "N26"
    /\ written = << >>

----------------------------------------------------------------------------
(* merge_command: the currency of the merged rows *)

\* the text holds no letter that to_uppercase would change
IsUpperCase(text) ==
    \A i \in 1..Len(text) : \A k \in 1..Len(LowerCase) : text[i] # LowerCase[k]

\* the length of "bank-csv-transactions-"
NamePrefixLen == Len(<<"b", "a", "n", "k", "-", "c", "s", "v", "-", "t", "r", "a", "n", "s",
                       "a", "c", "t", "i", "o", "n", "s", "-">>)

\* C13 as claimed: once the run has started, the target currency is in upper
\* case; every row of the merged set, and every record of every output file,
\* has the target currency as its currency, and the name of every output file
\* carries it; a row of an N26 table whose currency is null or empty gets to
\* the loop body only when the target currency is EUR.
C13_MergedRowsHaveTargetCurrency ==
    /\ pc \notin {"start", "aborted"} => upper_currency # << >> /\ IsUpperCase(upper_currency)
    /\ \A k \in 1..Len(currency_transactions) :
          currency_transactions[k].currency = upper_currency
    /\ \A i \in 1..Len(written) :
          /\ SubSeq(written[i].name, NamePrefixLen + 1,
                    NamePrefixLen + Len(upper_currency)) = upper_currency
          /\ \A k \in 1..Len(written[i].records) :
                written[i].records[k][3] = upper_currency
    /\ (pc = "row" /\ df_csv.source = "N26" /\ row[2] \in {Null, Str(<< >>)}) =>
          upper_currency = EUR

\* C13 amended: once the run has started, the target currency is in upper
\* case ("eur" and "EUR" both give "EUR") and the name of every output file
\* carries it; a row of an N26 table whose currency is null or empty gets to
\* the loop body only when the target currency is EUR; and if the target
\* currency is one that strip_quotes leaves as it is (any code of letters),
\* every row of the merged set and every record of every output file has it
\* as its currency.  (A DKB row gets the target currency with its quotes
\* stripped.)
C13_MergedRowsHaveUnquotedTargetCurrency ==
    /\ pc \notin {"start", "aborted"} => upper_currency # << >> /\ IsUpperCase(upper_currency)
    /\ \A i \in 1..Len(written) :
          SubSeq(written[i].name, NamePrefixLen + 1,
                 NamePrefixLen + Len(upper_currency)) = upper_currency
    /\ (pc = "row" /\ df_csv.source = "N26" /\ row[2] \in {Null, Str(<< >>)}) =>
          upper_currency = EUR
    /\ \A k \in 1..Len(currency_transactions) :
          currency_transactions[k].currency =
              (IF currency_transactions[k].source = "DKB"
               THEN strip_quotes(upper_currency) ELSE upper_currency)
    /\ strip_quotes(upper_currency) = upper_currency =>
          /\ \A k \in 1..Len(currency_transactions) :
                currency_transactions[k].currency = upper_currency
          /\ \A i \in 1..Len(written) : \A k \in 1..Len(written[i].records) :
                written[i].records[k][3] = upper_currency

\* C13 witness: for the target currency EUR, a row of an N26 table with a
\* null currency has been merged with the currency "EUR"
C13_Witness ==
    /\ pc = "rows"
    /\ upper_currency = EUR
    /\ df_csv.source = "N26"
    /\ row # << >> /\ row[2] = Null
    /\ push_result.kind = "push"
    /\ push_result.transaction.source = "N26"
    /\ push_result.transaction.currency = EUR
    /\ \E k \in 1..Len(currency_transactions) :
          currency_transactions[k].currency = EUR

====
